---- MODULE Spec2Model ----
(***************************************************************************)
(* Model of the vector database: the collection store (src/src/db.rs),     *)
(* its whole-snapshot persistence, and the read-write lock discipline of   *)
(* the HTTP handlers (src/src/routes/collection.rs, src/src/server.rs).    *)
(*                                                                         *)
(* f32 values are fixed-point integers: the integer One stands for 1.0.    *)
(* A String written to the snapshot is its position in StrTable (an        *)
(* injective code standing for the length-prefixed bytes).                 *)
(***************************************************************************)
EXTENDS Integers, Sequences, FiniteSets, TLC

VARIABLES
    collections,  \* Db.collections: name -> Collection (a function on the names present)
    store,        \* the file at STORE_PATH: [exists, bytes]
    result,       \* the Result of the Db method that ran last (sequential model)
    phase,        \* the process: "running", "draining", "dropping", "exited", "crashed", "failed"
    lock,         \* the tokio RwLock around the Db: [writer, readers]
    pc,           \* each handler task's position
    req,          \* each handler task's request
    seen,         \* each handler task's locals: the Result it got, what it has read
    committed,    \* the Db as of the last exit of an exclusive section (history)
    file,         \* each task's fs::write in progress: [open, bytes]; task 0 is main
    inflight      \* the number of handlers in flight when the signal came (history)

vars == <<collections, store, result, phase, lock, pc, req, seen, committed, file, inflight>>

----------------------------------------------------------------------------
(* Bounds and input domains *)

\* cap on the number of embeddings the whole database holds
MaxEmbeddings == 2

\* number of concurrent handler tasks of the concurrent model
NumHandlers == 2

\* fixed-point representation of the f32 value 1.0
One == 10

Names == {"A", "B"}
Ids == {"x", "y"}

\* every String the model uses; a String's code is its position here
StrTable == <<"A", "B", "x", "y", "price", "10", "z", "w", "20", "abc", "tag">>

StrCode(s) == CHOOSE i \in 1..Len(StrTable) : StrTable[i] = s
StrOf(c) == StrTable[c]

\* Option<HashMap<String, String>>: None is [is_some |-> FALSE] with the empty map
EmptyMap == [k \in {} |-> ""]
None == [is_some |-> FALSE, map |-> EmptyMap]
Some(m) == [is_some |-> TRUE, map |-> m]

Price == Some([k \in {"price"} |-> "10"])

Embedding(id, vector, metadata) == [id |-> id, vector |-> vector, metadata |-> metadata]

\* the insert requests: vectors of lengths 0, 1 and 2; <<30, 40>> has norm 5.0 and
\* <<0, 0>> norm 0; each id comes with two vectors of length 2, with and without metadata
EmbeddingInputs ==
    {Embedding("x", <<30, 40>>, Price), Embedding("x", <<0, 0>>, None),
     Embedding("y", <<30, 40>>, None), Embedding("y", <<0, 0>>, Price),
     Embedding("x", <<10>>, None), Embedding("y", <<10>>, Price),
     Embedding("x", << >>, None)}

\* (dimension, distance) pairs of the create requests
CreateInputs == {<<2, "cosine">>, <<2, "euclidean">>, <<1, "dot">>, <<0, "euclidean">>}

----------------------------------------------------------------------------
(* similarity::normalize and the Distance enum *)

ISqrt(n) == CHOOSE r \in 0..n : r * r <= n /\ n < (r + 1) * (r + 1)

RECURSIVE SumSquares(_)
SumSquares(v) == IF v = << >> THEN 0 ELSE Head(v) * Head(v) + SumSquares(Tail(v))

\* L2 normalization; a vector of magnitude 0 is returned as it is
normalize(v) ==
    LET magnitude == ISqrt(SumSquares(v))
    IN  IF magnitude > 0
        THEN [i \in 1..Len(v) |-> (v[i] * One) \div magnitude]
        ELSE v

\* the enum's variant index, as the snapshot stores it
DistanceIndex(d) == CASE d = "euclidean" -> 0 [] d = "cosine" -> 1 [] d = "dot" -> 2
DistanceOf(i) == CASE i = 0 -> "euclidean" [] i = 1 -> "cosine" [] i = 2 -> "dot"

----------------------------------------------------------------------------
(* Collection *)

Collection(dimension, distance, embeddings) ==
    [dimension |-> dimension, distance |-> distance, embeddings |-> embeddings]

HasId(c, id) == \E i \in 1..Len(c.embeddings) : c.embeddings[i].id = id

\* position of the first embedding with the id
Position(c, id) ==
    CHOOSE i \in 1..Len(c.embeddings) :
        /\ c.embeddings[i].id = id
        /\ \A j \in 1..(i - 1) : c.embeddings[j].id # id

RemoveAt(s, i) == SubSeq(s, 1, i - 1) \o SubSeq(s, i + 1, Len(s))

\* Collection::get_id: the first embedding with the id, or None
get_id(c, id) ==
    IF HasId(c, id)
    THEN [is_some |-> TRUE, value |-> c.embeddings[Position(c, id)]]
    ELSE [is_some |-> FALSE, value |-> Embedding("", << >>, None)]

\* (mutant) Vec::swap_remove: the last embedding takes the place of the removed one
delete_id_swapping(c, id) ==
    IF HasId(c, id)
    THEN LET i == Position(c, id)
             n == Len(c.embeddings)
             moved == [j \in 1..(n - 1) |-> IF j = i THEN c.embeddings[n] ELSE c.embeddings[j]]
         IN  [result |-> "Ok", collection |-> [c EXCEPT !.embeddings = moved]]
    ELSE [result |-> "IDNotFound", collection |-> c]

\* Collection::delete_id: removes the first embedding with the id
delete_id(c, id) ==
    IF HasId(c, id)
    THEN [result |-> "Ok",
          collection |-> [c EXCEPT !.embeddings = RemoveAt(c.embeddings, Position(c, id))]]
    ELSE [result |-> "IDNotFound", collection |-> c]

----------------------------------------------------------------------------
(* Snapshot codec: bincode::serialize / bincode::deserialize of the Db *)

RECURSIVE SortCodes(_)
SortCodes(S) ==
    IF S = {} THEN << >>
    ELSE LET m == CHOOSE x \in S : \A y \in S : x <= y
         IN  <<m>> \o SortCodes(S \ {m})

RECURSIVE Flatten(_)
Flatten(ss) == IF ss = << >> THEN << >> ELSE Head(ss) \o Flatten(Tail(ss))

SerializeMetadata(m) ==
    IF ~m.is_some THEN <<0>>
    ELSE LET keys == SortCodes({StrCode(k) : k \in DOMAIN m.map})
         IN  <<1, Len(keys)>>
             \o Flatten([i \in 1..Len(keys) |-> <<keys[i], StrCode(m.map[StrOf(keys[i])])>>])

SerializeEmbedding(e) ==
    <<StrCode(e.id), Len(e.vector)>> \o e.vector \o SerializeMetadata(e.metadata)

SerializeCollection(c) ==
    <<c.dimension, DistanceIndex(c.distance), Len(c.embeddings)>>
    \o Flatten([i \in 1..Len(c.embeddings) |-> SerializeEmbedding(c.embeddings[i])])

Serialize(db) ==
    LET names == SortCodes({StrCode(n) : n \in DOMAIN db})
    IN  <<Len(names)>>
        \o Flatten([i \in 1..Len(names) |->
                        <<names[i]>> \o SerializeCollection(db[StrOf(names[i])])])

\* a decoder's answer: ok, the position after what it read, and the value
Decoded(pos, val) == [ok |-> TRUE, pos |-> pos, val |-> val]
DecodeError == [ok |-> FALSE, pos |-> 0, val |-> 0]

IsStrCode(c) == c \in 1..Len(StrTable)

RECURSIVE DecodePairs(_, _, _, _)
DecodePairs(bytes, pos, n, acc) ==
    IF n = 0 THEN Decoded(pos, acc)
    ELSE IF pos + 1 > Len(bytes) \/ ~IsStrCode(bytes[pos]) \/ ~IsStrCode(bytes[pos + 1])
         THEN DecodeError
         ELSE LET k == StrOf(bytes[pos])
                  v == StrOf(bytes[pos + 1])
              IN  DecodePairs(bytes, pos + 2, n - 1,
                              [x \in DOMAIN acc \cup {k} |-> IF x = k THEN v ELSE acc[x]])

DecodeMetadata(bytes, pos) ==
    IF pos > Len(bytes) THEN DecodeError
    ELSE IF bytes[pos] = 0 THEN Decoded(pos + 1, None)
    ELSE IF bytes[pos] # 1 \/ pos + 1 > Len(bytes) THEN DecodeError
    ELSE LET r == DecodePairs(bytes, pos + 2, bytes[pos + 1], EmptyMap)
         IN  IF r.ok THEN Decoded(r.pos, Some(r.val)) ELSE DecodeError

DecodeEmbedding(bytes, pos) ==
    IF pos + 1 > Len(bytes) \/ ~IsStrCode(bytes[pos]) THEN DecodeError
    ELSE LET n == bytes[pos + 1]
         IN  IF pos + 1 + n > Len(bytes) THEN DecodeError
             ELSE LET m == DecodeMetadata(bytes, pos + 2 + n)
                  IN  IF m.ok
                      THEN Decoded(m.pos, Embedding(StrOf(bytes[pos]),
                                                    SubSeq(bytes, pos + 2, pos + 1 + n),
                                                    m.val))
                      ELSE DecodeError

RECURSIVE DecodeEmbeddings(_, _, _, _)
DecodeEmbeddings(bytes, pos, n, acc) ==
    IF n = 0 THEN Decoded(pos, acc)
    ELSE LET e == DecodeEmbedding(bytes, pos)
         IN  IF e.ok THEN DecodeEmbeddings(bytes, e.pos, n - 1, Append(acc, e.val))
             ELSE DecodeError

DecodeCollection(bytes, pos) ==
    IF pos + 2 > Len(bytes) \/ bytes[pos + 1] \notin 0..2 THEN DecodeError
    ELSE LET es == DecodeEmbeddings(bytes, pos + 3, bytes[pos + 2], << >>)
         IN  IF es.ok
             THEN Decoded(es.pos, Collection(bytes[pos], DistanceOf(bytes[pos + 1]), es.val))
             ELSE DecodeError

EmptyDb == [n \in {} |-> Collection(0, "euclidean", << >>)]

RECURSIVE DecodeCollections(_, _, _, _)
DecodeCollections(bytes, pos, n, acc) ==
    IF n = 0 THEN Decoded(pos, acc)
    ELSE IF pos > Len(bytes) \/ ~IsStrCode(bytes[pos]) THEN DecodeError
    ELSE LET name == StrOf(bytes[pos])
             c == DecodeCollection(bytes, pos + 1)
         IN  IF c.ok
             THEN DecodeCollections(bytes, c.pos, n - 1,
                      [x \in DOMAIN acc \cup {name} |-> IF x = name THEN c.val ELSE acc[x]])
             ELSE DecodeError

Deserialize(bytes) ==
    IF Len(bytes) = 0 THEN DecodeError
    ELSE DecodeCollections(bytes, 2, bytes[1], EmptyDb)

----------------------------------------------------------------------------
(* Db *)

Put(db, name, c) == [n \in DOMAIN db \cup {name} |-> IF n = name THEN c ELSE db[n]]
Remove(db, name) == [n \in DOMAIN db \ {name} |-> db[n]]

\* what a Db method gives: the Db after it, its Result, whether it called save(),
\* and (history) the number of embeddings it dropped
Outcome(db, kind, value, save, dropped) ==
    [db |-> db, result |-> kind, value |-> value, save |-> save, dropped |-> dropped]

NoValue == Embedding("", << >>, None)

\* (mutant) no check of the name: an existing collection is replaced
DbCreateCollectionOverwrites(db, name, dimension, distance) ==
    Outcome(Put(db, name, Collection(dimension, distance, << >>)), "Ok", NoValue, TRUE, 0)

\* Db::create_collection
DbCreateCollection(db, name, dimension, distance) ==
    IF name \in DOMAIN db
    THEN Outcome(db, "UniqueViolation", NoValue, FALSE, 0)
    ELSE Outcome(Put(db, name, Collection(dimension, distance, << >>)), "Ok", NoValue, TRUE, 0)

\* (mutant) the collection is removed from memory and save() is not called
DbDeleteCollectionUnsaved(db, name) ==
    IF name \notin DOMAIN db
    THEN Outcome(db, "NotFound", NoValue, FALSE, 0)
    ELSE Outcome(Remove(db, name), "Ok", NoValue, FALSE, Len(db[name].embeddings))

\* (mutant) the collection is emptied, not removed
DbDeleteCollectionEmpties(db, name) ==
    IF name \notin DOMAIN db
    THEN Outcome(db, "NotFound", NoValue, FALSE, 0)
    ELSE Outcome(Put(db, name, [db[name] EXCEPT !.embeddings = << >>]), "Ok", NoValue, TRUE,
                 Len(db[name].embeddings))

\* Db::delete_collection
DbDeleteCollection(db, name) ==
    IF name \notin DOMAIN db
    THEN Outcome(db, "NotFound", NoValue, FALSE, 0)
    ELSE Outcome(Remove(db, name), "Ok", NoValue, TRUE, Len(db[name].embeddings))

\* (mutant) the check compares against nothing
DimensionUnchecked(c, embedding) == TRUE

\* the dimension check of Db::insert_into_collection
DimensionOk(c, embedding) == Len(embedding.vector) = c.dimension

\* (mutant) the vector is stored as it was supplied, whatever the metric
StoredRaw(c, embedding) == embedding

\* the vector as stored: normalized when the collection's metric is cosine
Stored(c, embedding) ==
    IF c.distance = "cosine"
    THEN [embedding EXCEPT !.vector = normalize(embedding.vector)]
    ELSE embedding

\* (mutant) the existing embedding is kept
RemoveExistingSkipped(c, id) == c

\* the removal of an embedding with the same id, when there is one
RemoveExisting(c, id) == IF HasId(c, id) THEN delete_id(c, id).collection ELSE c

\* (mutant) the new embedding is put in front
PushFront(c, embedding) == [c EXCEPT !.embeddings = <<embedding>> \o c.embeddings]

Push(c, embedding) == [c EXCEPT !.embeddings = Append(c.embeddings, embedding)]

\* (mutant) the embedding of the same id is removed before the dimension is checked
DbInsertRemovesFirst(db, name, embedding) ==
    IF name \notin DOMAIN db
    THEN Outcome(db, "NotFound", NoValue, FALSE, 0)
    ELSE LET kept == RemoveExisting(db[name], embedding.id)
         IN  IF ~DimensionOk(db[name], embedding)
             THEN Outcome(Put(db, name, kept), "DimensionMismatch", NoValue, FALSE, 0)
             ELSE Outcome(Put(db, name, Push(kept, Stored(db[name], embedding))), "Ok", NoValue,
                          TRUE, IF HasId(db[name], embedding.id) THEN 1 ELSE 0)

\* (mutant) an insert into an absent collection creates the collection
DbInsertCreates(db, name, embedding) ==
    IF name \notin DOMAIN db
    THEN Outcome(Put(db, name, Collection(Len(embedding.vector), "euclidean", <<embedding>>)),
                 "Ok", NoValue, TRUE, 0)
    ELSE IF ~DimensionOk(db[name], embedding)
    THEN Outcome(db, "DimensionMismatch", NoValue, FALSE, 0)
    ELSE LET e == Stored(db[name], embedding)
             c == Push(RemoveExisting(db[name], e.id), e)
         IN  Outcome(Put(db, name, c), "Ok", NoValue, TRUE,
                     IF HasId(db[name], e.id) THEN 1 ELSE 0)

\* Db::insert_into_collection
DbInsertIntoCollection(db, name, embedding) ==
    IF name \notin DOMAIN db
    THEN Outcome(db, "NotFound", NoValue, FALSE, 0)
    ELSE IF ~DimensionOk(db[name], embedding)
    THEN Outcome(db, "DimensionMismatch", NoValue, FALSE, 0)
    ELSE LET e == Stored(db[name], embedding)
             c == Push(RemoveExisting(db[name], e.id), e)
         IN  Outcome(Put(db, name, c), "Ok", NoValue, TRUE,
                     IF HasId(db[name], e.id) THEN 1 ELSE 0)

\* Db::collection_delete_id: save() runs whatever delete_id answered
DbCollectionDeleteId(db, name, id) ==
    IF name \notin DOMAIN db
    THEN Outcome(db, "NotFound", NoValue, FALSE, 0)
    ELSE LET r == delete_id(db[name], id)
         IN  IF r.result = "Ok"
             THEN Outcome(Put(db, name, r.collection), "Ok", get_id(db[name], id).value, TRUE, 1)
             ELSE Outcome(Put(db, name, r.collection), r.result, NoValue, TRUE, 0)

\* Db::get_collection
get_collection(db, name) ==
    IF name \in DOMAIN db
    THEN [is_some |-> TRUE, value |-> db[name]]
    ELSE [is_some |-> FALSE, value |-> Collection(0, "euclidean", << >>)]

\* Db::load_from_store: a missing file gives Db::new(), a decode failure is an error
NoFile == [exists |-> FALSE, bytes |-> << >>]
FileOf(bytes) == [exists |-> TRUE, bytes |-> bytes]

LoadFromStore(st) ==
    IF ~st.exists THEN [ok |-> TRUE, db |-> EmptyDb]
    ELSE LET d == Deserialize(st.bytes)
         IN  IF d.ok THEN [ok |-> TRUE, db |-> d.val] ELSE [ok |-> FALSE, db |-> EmptyDb]

\* Db::save_to_store when fs::write succeeds
SaveToStore(db) == FileOf(Serialize(db))

\* Db::save after a method: the store after it
Save(out, st) == IF out.save THEN SaveToStore(out.db) ELSE st

----------------------------------------------------------------------------
(* Queries: the distance kernels, the top-k selection, the metadata filters *)

RECURSIVE Dot(_, _)
Dot(a, b) ==
    IF a = << >> \/ b = << >> THEN 0 ELSE Head(a) * Head(b) + Dot(Tail(a), Tail(b))

RECURSIVE SquaredDistance(_, _)
SquaredDistance(a, b) ==
    IF a = << >> \/ b = << >> THEN 0
    ELSE (Head(a) - Head(b)) * (Head(a) - Head(b)) + SquaredDistance(Tail(a), Tail(b))

\* the per-query attribute: the normalized query under cosine, the query otherwise
get_cache_attr(distance, query) == IF distance = "cosine" THEN normalize(query) ELSE query

\* the kernel of each metric; a score is a fixed-point number of unit One * One, and
\* a smaller score is a closer embedding
distance_fn(distance, vector, query, memo_attr) ==
    CASE distance = "euclidean" -> SquaredDistance(vector, query)
      [] distance = "cosine" -> One * One - Dot(vector, memo_attr)
      [] distance = "dot" -> 0 - Dot(vector, query)

ScoreIndex(score, index) == [score |-> score, index |-> index]

\* Ord for ScoreIndex: by score ascending, then by index ascending
Less(a, b) == a.score < b.score \/ (a.score = b.score /\ a.index < b.index)

\* BinaryHeap<ScoreIndex>, kept as the sequence of its items in ascending order:
\* peek and pop give the greatest item, into_sorted_vec gives the sequence
HeapPush(heap, x) ==
    LET below == SelectSeq(heap, LAMBDA y : Less(y, x))
        above == SelectSeq(heap, LAMBDA y : ~Less(y, x))
    IN  below \o <<x>> \o above

HeapPeek(heap) == heap[Len(heap)]
HeapPop(heap) == SubSeq(heap, 1, Len(heap) - 1)

\* (mutant) the indices count from the end of the collection
ScoresReversed(c, query) ==
    LET memo_attr == get_cache_attr(c.distance, query)
    IN  [i \in 1..Len(c.embeddings) |->
            ScoreIndex(distance_fn(c.distance, c.embeddings[i].vector, query, memo_attr),
                       Len(c.embeddings) - i)]

\* get_similarity, the scoring: one ScoreIndex per embedding, in the collection's
\* order, the index counting from 0
Scores(c, query) ==
    LET memo_attr == get_cache_attr(c.distance, query)
    IN  [i \in 1..Len(c.embeddings) |->
            ScoreIndex(distance_fn(c.distance, c.embeddings[i].vector, query, memo_attr), i - 1)]

\* (mutant) an item is taken only while the heap has room
AdmitsWhileRoom(heap, k, score_index) == IF Len(heap) < k THEN "push" ELSE "skip"

\* get_similarity, the test of its loop: heap.len() < k || score_index < *heap.peek().unwrap();
\* the unwrap of the peek of an empty heap panics
Admits(heap, k, score_index) ==
    IF Len(heap) < k THEN "push"
    ELSE IF heap = << >> THEN "panic"
    ELSE IF Less(score_index, HeapPeek(heap)) THEN "push"
    ELSE "skip"

\* get_similarity, the loop over the scores
RECURSIVE Select(_, _, _)
Select(scores, k, heap) ==
    IF scores = << >> THEN [panicked |-> FALSE, heap |-> heap]
    ELSE LET verdict == Admits(heap, k, Head(scores))
             pushed == HeapPush(heap, Head(scores))
         IN  CASE verdict = "panic" -> [panicked |-> TRUE, heap |-> heap]
               [] verdict = "push" ->
                    Select(Tail(scores), k, IF Len(pushed) > k THEN HeapPop(pushed) ELSE pushed)
               [] verdict = "skip" -> Select(Tail(scores), k, heap)

SimilarityResult(score, embedding) == [score |-> score, embedding |-> embedding]

\* Collection::get_similarity: whether it panicked, the sorted heap, the results
get_similarity(c, query, k) ==
    LET selected == Select(Scores(c, query), k, << >>)
    IN  [panicked |-> selected.panicked,
         ranked |-> selected.heap,
         results |-> IF selected.panicked THEN << >>
                     ELSE [i \in 1..Len(selected.heap) |->
                              SimilarityResult(selected.heap[i].score,
                                               c.embeddings[selected.heap[i].index + 1])]]

\* str::parse::<f32> on the Strings of the model: the value, or an error
ParseF32(s) ==
    CASE s = "10" -> [ok |-> TRUE, value |-> 10 * One]
      [] s = "20" -> [ok |-> TRUE, value |-> 20 * One]
      [] OTHER -> [ok |-> FALSE, value |-> 0]

Equalities == {"greater_equal_than", "greater_than", "lesser_equal_than", "lesser_than", "equal"}

\* the match on MetadataEqualities
Compare(equality, meta_value, value) ==
    CASE equality = "greater_equal_than" -> meta_value >= value
      [] equality = "greater_than" -> meta_value > value
      [] equality = "lesser_equal_than" -> meta_value <= value
      [] equality = "lesser_than" -> meta_value < value
      [] equality = "equal" -> meta_value = value

\* the filter closure of get_metadata_string
StringFilter(embedding, key, value) ==
    IF embedding.metadata.is_some
    THEN IF key \in DOMAIN embedding.metadata.map
         THEN embedding.metadata.map[key] = value
         ELSE FALSE
    ELSE FALSE

\* the filter closure of get_metadata_number
NumberFilter(embedding, key, value, equality) ==
    IF embedding.metadata.is_some
    THEN IF key \in DOMAIN embedding.metadata.map
         THEN LET parsed == ParseF32(embedding.metadata.map[key])
              IN  IF parsed.ok THEN Compare(equality, parsed.value, value) ELSE FALSE
         ELSE FALSE
    ELSE FALSE

\* (mutant) the last k are kept
TakeLast(s, k) == IF k >= Len(s) THEN s ELSE SubSeq(s, Len(s) - k + 1, Len(s))

\* Iterator::take(k)
Take(s, k) == IF k >= Len(s) THEN s ELSE SubSeq(s, 1, k)

\* Collection::get_metadata_string
get_metadata_string(c, key, value, k) ==
    Take(SelectSeq(c.embeddings, LAMBDA e : StringFilter(e, key, value)), k)

\* Collection::get_metadata_number
get_metadata_number(c, key, value, equality, k) ==
    Take(SelectSeq(c.embeddings, LAMBDA e : NumberFilter(e, key, value, equality)), k)

----------------------------------------------------------------------------
(* HTTP surface: the status each handler answers *)

CreateStatus(kind) == CASE kind = "Ok" -> 201 [] kind = "UniqueViolation" -> 409 [] OTHER -> 500
DeleteStatus(kind) == CASE kind = "Ok" -> 204 [] kind = "NotFound" -> 404 [] OTHER -> 500
InsertStatus(kind) ==
    CASE kind = "Ok" -> 201 [] kind = "NotFound" -> 404 [] kind = "UniqueViolation" -> 409
      [] kind = "DimensionMismatch" -> 400 [] OTHER -> 400
DeleteIdStatus(kind) ==
    CASE kind = "Ok" -> 204 [] kind = "NotFound" -> 404 [] kind = "IDNotFound" -> 404
      [] OTHER -> 500

\* what the last request was answered: the Db method's Result, the HTTP status, and
\* (history) the number of embeddings the method dropped
Response(op, out, status) ==
    [op |-> op, kind |-> out.result, status |-> status, dropped |-> out.dropped]

\* the body of PUT /collections/:name is a Collection; its embeddings default to empty
CreateBodies ==
    {Collection(p[1], p[2], << >>) : p \in CreateInputs}
    \cup {Collection(1, "dot", <<Embedding("x", <<10>>, None)>>)}

----------------------------------------------------------------------------
(* Sequential model: one request at a time, every snapshot write succeeds *)

NoRequest == [op |-> "none", name |-> "", body |-> Collection(0, "euclidean", << >>),
              embedding |-> NoValue, id |-> ""]
Absent == get_collection(EmptyDb, "")
NoSeen == [n |-> 0, kind |-> "None", first |-> Absent, second |-> Absent]
Closed == [open |-> FALSE, bytes |-> << >>]
Unlocked == [writer |-> 0, readers |-> {}]
Handlers == 1..NumHandlers

Init ==
    /\ collections = EmptyDb
    /\ store = NoFile
    /\ result = [op |-> "none", kind |-> "None", status |-> 0, dropped |-> 0]
    /\ phase = "running"
    /\ lock = Unlocked
    /\ pc = [h \in Handlers |-> "idle"]
    /\ req = [h \in Handlers |-> NoRequest]
    /\ seen = [h \in Handlers |-> NoSeen]
    /\ committed = EmptyDb
    /\ file = [t \in 0..NumHandlers |-> Closed]
    /\ inflight = 0

Unused == <<phase, lock, pc, req, seen, committed, file, inflight>>

RECURSIVE SumLen(_, _)
SumLen(db, S) ==
    IF S = {} THEN 0
    ELSE LET n == CHOOSE x \in S : TRUE
         IN  Len(db[n].embeddings) + SumLen(db, S \ {n})

\* number of embeddings in the database
Size(db) == SumLen(db, DOMAIN db)

\* the size cap of the model: an insert may not grow a full database
Fits(db, name, embedding) ==
    (name \in DOMAIN db /\ ~HasId(db[name], embedding.id)) => Size(db) < MaxEmbeddings

\* PUT /collections/:name
CreateCollection(name, body) ==
    LET out == DbCreateCollection(collections, name, body.dimension, body.distance)
    IN  /\ phase = "running"
        /\ collections' = out.db
        /\ store' = Save(out, store)
        /\ result' = Response("create", out, CreateStatus(out.result))
        /\ UNCHANGED Unused

\* DELETE /collections/:name
DeleteCollection(name) ==
    LET out == DbDeleteCollection(collections, name)
    IN  /\ phase = "running"
        /\ collections' = out.db
        /\ store' = Save(out, store)
        /\ result' = Response("delete", out, DeleteStatus(out.result))
        /\ UNCHANGED Unused

\* POST /collections/:name/insert
InsertIntoCollection(name, embedding) ==
    LET out == DbInsertIntoCollection(collections, name, embedding)
    IN  /\ phase = "running"
        /\ Fits(collections, name, embedding)
        /\ collections' = out.db
        /\ store' = Save(out, store)
        /\ result' = Response("insert", out, InsertStatus(out.result))
        /\ UNCHANGED Unused

\* DELETE /collections/:name/:id
DeleteIdCollection(name, id) ==
    LET out == DbCollectionDeleteId(collections, name, id)
    IN  /\ phase = "running"
        /\ collections' = out.db
        /\ store' = Save(out, store)
        /\ result' = Response("delete_id", out, DeleteIdStatus(out.result))
        /\ UNCHANGED Unused

\* the process ends between two requests and starts again: server::start loads the store
Restart ==
    LET loaded == LoadFromStore(store)
    IN  /\ phase = "running"
        /\ collections' = loaded.db
        /\ phase' = IF loaded.ok THEN "running" ELSE "failed"
        /\ result' = [op |-> "start", kind |-> IF loaded.ok THEN "Loaded" ELSE "DecodeError",
                      status |-> 0, dropped |-> 0]
        /\ UNCHANGED <<store, lock, pc, req, seen, committed, file, inflight>>

Next ==
    \/ \E name \in Names, body \in CreateBodies : CreateCollection(name, body)
    \/ \E name \in Names : DeleteCollection(name)
    \/ \E name \in Names, embedding \in EmbeddingInputs : InsertIntoCollection(name, embedding)
    \/ \E name \in Names, id \in Ids : DeleteIdCollection(name, id)
    \/ Restart

Spec == Init /\ [][Next]_vars

----------------------------------------------------------------------------
(* Concurrent model: handler tasks around the RwLock, save as open-then-write,
   graceful shutdown *)

Request(op, name, body, embedding, id) ==
    [op |-> op, name |-> name, body |-> body, embedding |-> embedding, id |-> id]

NoBody == Collection(0, "euclidean", << >>)

ConcRequests ==
    {Request("create", "A", Collection(2, "cosine", << >>), NoValue, ""),
     Request("delete", "A", NoBody, NoValue, ""),
     Request("insert", "A", NoBody, Embedding("x", <<30, 40>>, None), ""),
     Request("insert", "A", NoBody, Embedding("x", <<0, 0>>, None), ""),
     Request("insert", "A", NoBody, Embedding("y", <<30, 40>>, None), ""),
     Request("delete_id", "A", NoBody, NoValue, "x"),
     Request("query", "A", NoBody, NoValue, "")}

\* the handlers that take db.write()
IsWrite(r) == r.op \in {"create", "delete", "insert", "delete_id"}

\* the Db method a mutating handler calls
ApplyDb(db, r) ==
    CASE r.op = "create" -> DbCreateCollection(db, r.name, r.body.dimension, r.body.distance)
      [] r.op = "delete" -> DbDeleteCollection(db, r.name)
      [] r.op = "insert" -> DbInsertIntoCollection(db, r.name, r.embedding)
      [] r.op = "delete_id" -> DbCollectionDeleteId(db, r.name, r.id)

\* (mutant) a mutating handler that enters without the lock
CanWriteUnguarded(l) == TRUE

\* RwLock::write is granted when no task holds the lock
CanWrite(l) == l.writer = 0 /\ l.readers = {}

\* (mutant) a read handler that enters without the lock
CanReadUnguarded(l) == TRUE

\* RwLock::read is granted when no task holds it exclusively
CanRead(l) == l.writer = 0

\* (mutant) the Db is dropped as soon as the signal comes
CanDropAtOnce(p) == TRUE

\* the Db is dropped when the server has drained: no handler task holds the Arc
CanDrop(p) == \A h \in Handlers : p[h] = "idle"

\* the insert takes the branch that removes an embedding of the same id
Upserts(db, r) ==
    /\ r.op = "insert"
    /\ r.name \in DOMAIN db
    /\ DimensionOk(db[r.name], r.embedding)
    /\ HasId(db[r.name], r.embedding.id)

ConcUnchanged == <<result, inflight>>

\* a request arrives and its handler task awaits the lock
Start(h, r) ==
    /\ phase = "running"
    /\ pc[h] = "idle"
    /\ pc' = [pc EXCEPT ![h] = "lock"]
    /\ req' = [req EXCEPT ![h] = r]
    /\ UNCHANGED <<collections, store, phase, lock, seen, committed, file, ConcUnchanged>>

\* db.write().await returns
AcquireWrite(h) ==
    /\ pc[h] = "lock"
    /\ IsWrite(req[h])
    /\ CanWrite(lock)
    /\ lock' = [lock EXCEPT !.writer = h]
    /\ pc' = [pc EXCEPT ![h] = "call"]
    /\ UNCHANGED <<collections, store, phase, req, seen, committed, file, ConcUnchanged>>

\* db.read().await returns
AcquireRead(h) ==
    /\ pc[h] = "lock"
    /\ ~IsWrite(req[h])
    /\ CanRead(lock)
    /\ lock' = [lock EXCEPT !.readers = @ \cup {h}]
    /\ pc' = [pc EXCEPT ![h] = "read"]
    /\ UNCHANGED <<collections, store, phase, req, seen, committed, file, ConcUnchanged>>

\* the Db method's in-memory part, when it is one step: every method but an insert of
\* an id the collection holds
Call(h) ==
    /\ pc[h] = "call"
    /\ ~Upserts(collections, req[h])
    /\ LET out == ApplyDb(collections, req[h])
       IN  /\ collections' = out.db
           /\ seen' = [seen EXCEPT ![h].kind = out.result]
           /\ pc' = [pc EXCEPT ![h] = IF out.save THEN "save" ELSE "respond"]
    /\ UNCHANGED <<store, phase, lock, req, committed, file, ConcUnchanged>>

\* insert_into_collection, first half: the embedding of the same id is removed
RemoveStep(h) ==
    /\ pc[h] = "call"
    /\ Upserts(collections, req[h])
    /\ LET c == collections[req[h].name]
       IN  collections' = Put(collections, req[h].name,
                              RemoveExisting(c, Stored(c, req[h].embedding).id))
    /\ pc' = [pc EXCEPT ![h] = "push"]
    /\ UNCHANGED <<store, phase, lock, req, seen, committed, file, ConcUnchanged>>

\* insert_into_collection, second half: the new embedding is pushed
PushStep(h) ==
    /\ pc[h] = "push"
    /\ req[h].name \in DOMAIN collections
    /\ LET c == collections[req[h].name]
       IN  collections' = Put(collections, req[h].name, Push(c, Stored(c, req[h].embedding)))
    /\ seen' = [seen EXCEPT ![h].kind = "Ok"]
    /\ pc' = [pc EXCEPT ![h] = "save"]
    /\ UNCHANGED <<store, phase, lock, req, committed, file, ConcUnchanged>>

\* save_to_store: the Db is serialized and fs::write creates (truncates) the file
SaveOpen(h) ==
    /\ pc[h] = "save"
    /\ file' = [file EXCEPT ![h] = [open |-> TRUE, bytes |-> Serialize(collections)]]
    /\ store' = FileOf(<< >>)
    /\ pc' = [pc EXCEPT ![h] = "write"]
    /\ UNCHANGED <<collections, phase, lock, req, seen, committed, ConcUnchanged>>

\* save_to_store: fs::write writes the bytes and closes the file
SaveWrite(h) ==
    /\ pc[h] = "write"
    /\ store' = FileOf(file[h].bytes)
    /\ file' = [file EXCEPT ![h] = Closed]
    /\ pc' = [pc EXCEPT ![h] = "respond"]
    /\ UNCHANGED <<collections, phase, lock, req, seen, committed, ConcUnchanged>>

\* a mutating handler returns: its write guard is dropped
RespondWrite(h) ==
    /\ pc[h] = "respond"
    /\ IsWrite(req[h])
    /\ lock' = [lock EXCEPT !.writer = IF @ = h THEN 0 ELSE @]
    /\ committed' = collections
    /\ pc' = [pc EXCEPT ![h] = "idle"]
    /\ req' = [req EXCEPT ![h] = NoRequest]
    /\ seen' = [seen EXCEPT ![h] = NoSeen]
    /\ UNCHANGED <<collections, store, phase, file, ConcUnchanged>>

\* query_collection: get_collection and the dimension check
Read(h) ==
    /\ pc[h] = "read"
    /\ LET c == get_collection(collections, req[h].name)
       IN  /\ seen' = [seen EXCEPT ![h] = [n |-> 1, kind |-> IF c.is_some THEN "Ok" ELSE "NotFound",
                                           first |-> c, second |-> Absent]]
           /\ pc' = [pc EXCEPT ![h] = IF c.is_some THEN "read2" ELSE "respond"]
    /\ UNCHANGED <<collections, store, phase, lock, req, committed, file, ConcUnchanged>>

\* query_collection: get_similarity reads the collection through the same reference
ReadAgain(h) ==
    /\ pc[h] = "read2"
    /\ seen' = [seen EXCEPT ![h].n = 2, ![h].second = get_collection(collections, req[h].name)]
    /\ pc' = [pc EXCEPT ![h] = "respond"]
    /\ UNCHANGED <<collections, store, phase, lock, req, committed, file, ConcUnchanged>>

\* a read handler returns: its read guard is dropped
RespondRead(h) ==
    /\ pc[h] = "respond"
    /\ ~IsWrite(req[h])
    /\ lock' = [lock EXCEPT !.readers = @ \ {h}]
    /\ pc' = [pc EXCEPT ![h] = "idle"]
    /\ req' = [req EXCEPT ![h] = NoRequest]
    /\ seen' = [seen EXCEPT ![h] = NoSeen]
    /\ UNCHANGED <<collections, store, phase, committed, file, ConcUnchanged>>

\* the interrupt or termination signal: the server stops accepting requests
Signal ==
    /\ phase = "running"
    /\ phase' = "draining"
    /\ inflight' = Cardinality({h \in Handlers : pc[h] # "idle"})
    /\ UNCHANGED <<collections, store, result, lock, pc, req, seen, committed, file>>

\* Drop for Db, once the server has drained: save_to_store creates the file
DropOpen ==
    /\ phase = "draining"
    /\ CanDrop(pc)
    /\ phase' = "dropping"
    /\ file' = [file EXCEPT ![0] = [open |-> TRUE, bytes |-> Serialize(collections)]]
    /\ store' = FileOf(<< >>)
    /\ UNCHANGED <<collections, result, lock, pc, req, seen, committed, inflight>>

\* Drop for Db: fs::write writes the bytes; the process exits
DropWrite ==
    /\ phase = "dropping"
    /\ store' = FileOf(file[0].bytes)
    /\ file' = [file EXCEPT ![0] = Closed]
    /\ phase' = "exited"
    /\ UNCHANGED <<collections, result, lock, pc, req, seen, committed, inflight>>

NextConc ==
    \/ \E h \in Handlers, r \in ConcRequests : Start(h, r)
    \/ \E h \in Handlers : AcquireWrite(h)
    \/ \E h \in Handlers : AcquireRead(h)
    \/ \E h \in Handlers : Call(h)
    \/ \E h \in Handlers : RemoveStep(h)
    \/ \E h \in Handlers : PushStep(h)
    \/ \E h \in Handlers : SaveOpen(h)
    \/ \E h \in Handlers : SaveWrite(h)
    \/ \E h \in Handlers : RespondWrite(h)
    \/ \E h \in Handlers : Read(h)
    \/ \E h \in Handlers : ReadAgain(h)
    \/ \E h \in Handlers : RespondRead(h)
    \/ Signal
    \/ DropOpen
    \/ DropWrite

SpecConc == Init /\ [][NextConc]_vars

----------------------------------------------------------------------------
(* Crash model: the process may be killed at any step and started again *)

\* what the file holds when the process dies: a write in progress has reached the
\* disk up to any point
TornStores ==
    IF \E t \in DOMAIN file : file[t].open
    THEN UNION {{FileOf(SubSeq(file[t].bytes, 1, k)) : k \in 0..Len(file[t].bytes)} :
                   t \in {u \in DOMAIN file : file[u].open}}
    ELSE {store}

\* the process is killed: no Drop runs
Crash ==
    /\ phase \in {"running", "draining", "dropping"}
    /\ phase' = "crashed"
    /\ store' \in TornStores
    /\ UNCHANGED <<collections, result, lock, pc, req, seen, committed, file, inflight>>

\* server::start after a crash: db::from_store, whose error ends the process
Recover ==
    LET loaded == LoadFromStore(store)
    IN  /\ phase = "crashed"
        /\ phase' = IF loaded.ok THEN "running" ELSE "failed"
        /\ collections' = loaded.db
        /\ committed' = loaded.db
        /\ lock' = Unlocked
        /\ pc' = [h \in Handlers |-> "idle"]
        /\ req' = [h \in Handlers |-> NoRequest]
        /\ seen' = [h \in Handlers |-> NoSeen]
        /\ file' = [t \in 0..NumHandlers |-> Closed]
        /\ inflight' = 0
        /\ UNCHANGED <<store, result>>

NextCrash ==
    \/ NextConc
    \/ Crash
    \/ Recover

SpecCrash == Init /\ [][NextCrash]_vars

----------------------------------------------------------------------------
(* Cancellation model: the concurrent model, where the framework may drop a handler
   task at a point where the task is suspended *)

\* (mutant) save is awaited: the task is also suspended between the in-memory change
\* and the snapshot write
SuspendedInSave(p) == p \in {"lock", "save"}

\* the positions at which a handler task is suspended: the await of the lock, the
\* only await of a handler's body
Suspended(p) == p = "lock"

\* the client disconnects and the task is dropped where it is suspended: its locals,
\* a lock guard among them, are dropped and the rest of the handler never runs
Cancel(h) ==
    /\ pc[h] # "idle"
    /\ Suspended(pc[h])
    /\ lock' = [writer |-> IF lock.writer = h THEN 0 ELSE lock.writer,
                readers |-> lock.readers \ {h}]
    /\ pc' = [pc EXCEPT ![h] = "idle"]
    /\ req' = [req EXCEPT ![h] = NoRequest]
    /\ seen' = [seen EXCEPT ![h] = NoSeen]
    /\ result' = [op |-> "cancel", kind |-> "Cancelled", status |-> 0, dropped |-> 0]
    /\ UNCHANGED <<collections, store, phase, committed, file, inflight>>

NextCancel ==
    \/ NextConc
    \/ \E h \in Handlers : Cancel(h)

SpecCancel == Init /\ [][NextCancel]_vars

----------------------------------------------------------------------------
(* Query model: the server has loaded a snapshot that holds one populated
   collection; read handlers and deletions of embeddings run one at a time *)

\* cap on the number of embeddings of the loaded collection, and on its ids
MaxStored == 3

StockIds == <<"x", "y", "z", "w">>
StoredIds == {StockIds[i] : i \in 1..MaxStored}

Meta(key, value) == Some([k \in {key} |-> value])

\* the embeddings that were inserted: two candidates for each id; several share a
\* vector (equal scores) and several a metadata entry
Stock ==
    {Embedding("x", <<10, 0, 0>>, Meta("price", "10")), Embedding("x", <<0, 0, 0>>, None),
     Embedding("y", <<0, 10, 0>>, Meta("price", "20")), Embedding("y", <<10, 0, 0>>, Meta("price", "10")),
     Embedding("z", <<0, 0, 10>>, Meta("price", "abc")), Embedding("z", <<0, 10, 0>>, Meta("tag", "10")),
     Embedding("w", <<30, 40, 0>>, Meta("price", "20")), Embedding("w", <<0, 0, 10>>, None)}

\* the sequences of at most n stock embeddings of distinct stored ids
RECURSIVE Arrangements(_)
Arrangements(n) ==
    IF n = 0 THEN {<< >>}
    ELSE LET shorter == Arrangements(n - 1)
             more == {p \in shorter \X {e \in Stock : e.id \in StoredIds} :
                         \A i \in 1..Len(p[1]) : p[1][i].id # p[2].id}
         IN  shorter \cup {Append(p[1], p[2]) : p \in more}

RECURSIVE InsertAll(_, _, _)
InsertAll(db, name, s) ==
    IF s = << >> THEN db
    ELSE InsertAll(DbInsertIntoCollection(db, name, Head(s)).db, name, Tail(s))

\* the database after collection "A" of dimension 3 was created and s inserted
Populated(distance, s) ==
    InsertAll(DbCreateCollection(EmptyDb, "A", 3, distance).db, "A", s)

InitQuery ==
    /\ collections \in {Populated(d, s) : d \in {"euclidean", "cosine", "dot"},
                                          s \in Arrangements(MaxStored)}
    /\ store = SaveToStore(collections)
    /\ result = [op |-> "none", kind |-> "None", status |-> 0, dropped |-> 0]
    /\ phase = "running"
    /\ lock = Unlocked
    /\ pc = [h \in Handlers |-> "idle"]
    /\ req = [h \in Handlers |-> NoRequest]
    /\ seen = [h \in Handlers |-> NoSeen]
    /\ committed = EmptyDb
    /\ file = [t \in 0..NumHandlers |-> Closed]
    /\ inflight = 0

\* Option<usize>, the k of a request
NoK == [is_some |-> FALSE, value |-> 0]
SomeK(n) == [is_some |-> TRUE, value |-> n]
UnwrapOr(option, default) == IF option.is_some THEN option.value ELSE default

\* (mutant) the query's length is not compared
QueryDimensionUnchecked(c, query) == TRUE

\* the dimension check of query_collection
QueryDimensionOk(c, query) == Len(query) = c.dimension

\* what a read handler answered, with its request; scored is (history) the number of
\* embeddings that were scored; a handler that panicked answered nothing (status 0)
Answer(op, request, kind, status, results, ranked, scored) ==
    [op |-> op, request |-> request, kind |-> kind, status |-> status, dropped |-> 0,
     results |-> results, ranked |-> ranked, scored |-> scored]

\* POST /collections/:name
QueryCollection(name, query, k) ==
    LET request == [name |-> name, query |-> query, k |-> k]
        c == get_collection(collections, name)
        found == get_similarity(c.value, query, UnwrapOr(k, 1))
    IN  /\ phase = "running"
        /\ result' =
             IF ~c.is_some
             THEN Answer("query", request, "NotFound", 404, << >>, << >>, 0)
             ELSE IF ~QueryDimensionOk(c.value, query)
             THEN Answer("query", request, "DimensionMismatch", 400, << >>, << >>, 0)
             ELSE IF found.panicked
             THEN Answer("query", request, "Panic", 0, << >>, found.ranked,
                         Len(c.value.embeddings))
             ELSE Answer("query", request, "Ok", 200, found.results, found.ranked,
                         Len(c.value.embeddings))
        /\ UNCHANGED <<collections, store, Unused>>

\* POST /collections/:name/query
QueryMetadataStringCollection(name, key, value, k) ==
    LET request == [name |-> name, key |-> key, value |-> value, k |-> k]
        c == get_collection(collections, name)
    IN  /\ phase = "running"
        /\ result' =
             IF ~c.is_some
             THEN Answer("query_string", request, "NotFound", 404, << >>, << >>, 0)
             ELSE Answer("query_string", request, "Ok", 200,
                         get_metadata_string(c.value, key, value, UnwrapOr(k, 5)), << >>, 0)
        /\ UNCHANGED <<collections, store, Unused>>

\* POST /collections/:name/querynum
QueryMetadataNumberCollection(name, key, value, equality, k) ==
    LET request == [name |-> name, key |-> key, value |-> value, equality |-> equality,
                    k |-> k]
        c == get_collection(collections, name)
    IN  /\ phase = "running"
        /\ result' =
             IF ~c.is_some
             THEN Answer("query_number", request, "NotFound", 404, << >>, << >>, 0)
             ELSE IF equality \notin Equalities
             THEN Answer("query_number", request, "InvalidEquality", 400, << >>, << >>, 0)
             ELSE Answer("query_number", request, "Ok", 200,
                         get_metadata_number(c.value, key, value, equality, UnwrapOr(k, 5)),
                         << >>, 0)
        /\ UNCHANGED <<collections, store, Unused>>

\* the similarity requests: every k from 0 to past the collection's size and no k,
\* on a query that ties stored vectors; the zero query; a short query; an absent name
QueryInputs ==
    {<<"A", <<10, 0, 0>>, k>> : k \in {NoK} \cup {SomeK(n) : n \in 0..(MaxStored + 1)}}
    \cup {<<"A", <<0, 0, 0>>, SomeK(2)>>, <<"A", <<10, 0>>, SomeK(2)>>, <<"A", << >>, NoK>>,
          <<"B", <<10, 0, 0>>, NoK>>, <<"B", <<10, 0>>, SomeK(0)>>}

StringInputs ==
    {<<"A", key, "10", k>> : key \in {"price", "tag"}, k \in {NoK, SomeK(0), SomeK(1)}}
    \cup {<<"A", "price", "abc", NoK>>, <<"B", "price", "10", NoK>>}

\* thresholds 10.0 and 15.0
NumberInputs ==
    {<<"A", "price", 10 * One, equality, k>> : equality \in Equalities, k \in {NoK, SomeK(1)}}
    \cup {<<"A", "price", 15 * One, "greater_than", SomeK(0)>>,
          <<"A", "tag", 10 * One, "equal", NoK>>,
          <<"A", "price", 10 * One, "between", NoK>>,
          <<"B", "price", 10 * One, "equal", NoK>>}

NextQuery ==
    \/ \E i \in QueryInputs : QueryCollection(i[1], i[2], i[3])
    \/ \E i \in StringInputs : QueryMetadataStringCollection(i[1], i[2], i[3], i[4])
    \/ \E i \in NumberInputs : QueryMetadataNumberCollection(i[1], i[2], i[3], i[4], i[5])
    \/ \E name \in Names, id \in StoredIds : DeleteIdCollection(name, id)

SpecQuery == InitQuery /\ [][NextQuery]_vars

----------------------------------------------------------------------------
(* Failing-store model: one request at a time; a snapshot write may fail *)

\* the outcomes of fs::write: it succeeds; the file cannot be created and stays as
\* it was; or the write fails after the file was created (truncated), with some of
\* the bytes written
Io(kind, written) == [kind |-> kind, written |-> written]
IoOutcomes(bytes) ==
    {Io("ok", Len(bytes)), Io("create_failed", 0)}
    \cup {Io("write_failed", n) : n \in 0..(Len(bytes) - 1)}

\* Db::save_to_store: the file after it, and its Result
SaveToStoreWith(db, st, io) ==
    LET bytes == Serialize(db)
    IN  CASE io.kind = "ok" -> [store |-> FileOf(bytes), result |-> "Ok"]
          [] io.kind = "create_failed" -> [store |-> st, result |-> "Err"]
          [] io.kind = "write_failed" ->
               [store |-> FileOf(SubSeq(bytes, 1, io.written)), result |-> "Err"]

\* (mutant) save returns the error of save_to_store and the method passes it on
SavePropagated(kind, saved) == IF saved = "Err" THEN "SaveFailed" ELSE kind

\* Db::save: the Result of save_to_store is dropped (.ok()); the method's own Result
\* is what the caller gets
SaveSwallowed(kind, saved) == kind

\* the status a mutating handler answers
StatusOf(op, kind) ==
    CASE op = "create" -> CreateStatus(kind)
      [] op = "delete" -> DeleteStatus(kind)
      [] op = "insert" -> InsertStatus(kind)
      [] op = "delete_id" -> DeleteIdStatus(kind)

\* a mutating handler, with the outcome of its snapshot write; saved is (history) the
\* Result of save_to_store, stale (history) whether the file did not hold the
\* database when the request came
Mutate(r, io) ==
    LET out == ApplyDb(collections, r)
        written == IF out.save THEN SaveToStoreWith(out.db, store, io)
                   ELSE [store |-> store, result |-> "None"]
        kind == SaveSwallowed(out.result, written.result)
    IN  /\ phase = "running"
        /\ collections' = out.db
        /\ store' = written.store
        /\ result' = [op |-> r.op, kind |-> kind, status |-> StatusOf(r.op, kind),
                      dropped |-> out.dropped, request |-> r, saved |-> written.result,
                      stale |-> LoadFromStore(store) # [ok |-> TRUE, db |-> collections]]
        /\ UNCHANGED Unused

\* the outcomes of the snapshot write of a request: one, unused, when the Db
\* method returns before save()
Outcomes(db, r) ==
    IF ApplyDb(db, r).save THEN IoOutcomes(Serialize(ApplyDb(db, r).db))
    ELSE {Io("ok", 0)}

NextFail ==
    \E r \in {q \in ConcRequests : IsWrite(q)} :
        \E io \in Outcomes(collections, r) : Mutate(r, io)

SpecFail == Init /\ [][NextFail]_vars

----------------------------------------------------------------------------
(* Sequential model with the read handlers *)

\* GET /collections/:name
GetCollectionInfo(name) ==
    LET request == [name |-> name]
        c == get_collection(collections, name)
        info == [name |-> name, distance |-> c.value.distance,
                 dimension |-> c.value.dimension,
                 embedding_count |-> Len(c.value.embeddings)]
    IN  /\ phase = "running"
        /\ result' =
             IF ~c.is_some
             THEN Answer("info", request, "NotFound", 404, << >>, << >>, 0)
             ELSE Answer("info", request, "Ok", 200, <<info>>, << >>, 0)
        /\ UNCHANGED <<collections, store, Unused>>

\* GET /collections/:name/:id
QueryIdCollection(name, id) ==
    LET request == [name |-> name, id |-> id]
        c == get_collection(collections, name)
        found == get_id(c.value, id)
    IN  /\ phase = "running"
        /\ result' =
             IF ~c.is_some
             THEN Answer("get_id", request, "NotFound", 404, << >>, << >>, 0)
             ELSE IF ~found.is_some
             THEN Answer("get_id", request, "IDNotFound", 400, << >>, << >>, 0)
             ELSE Answer("get_id", request, "Ok", 200, <<found.value>>, << >>, 0)
        /\ UNCHANGED <<collections, store, Unused>>

ReadOps == {"query", "query_string", "query_number", "info", "get_id"}

NextAll ==
    \/ Next
    \/ \E name \in Names : GetCollectionInfo(name)
    \/ \E name \in Names : QueryIdCollection(name, "x")
    \/ \E name \in Names : QueryCollection(name, <<30, 40>>, SomeK(2))
    \/ \E name \in Names : QueryMetadataStringCollection(name, "price", "10", NoK)
    \/ \E name \in Names :
         QueryMetadataNumberCollection(name, "price", 10 * One, "greater_equal_than", NoK)

SpecAll == Init /\ [][NextAll]_vars

----------------------------------------------------------------------------
(* Upsert model: the server has loaded a snapshot that holds one populated
   collection; inserts and deletions of embeddings run one at a time *)

UpsertInputs == {e \in Stock : e.id \in StoredIds}

NextUpsert ==
    \/ \E e \in UpsertInputs : InsertIntoCollection("A", e)
    \/ \E id \in StoredIds : DeleteIdCollection("A", id)

SpecUpsert == InitQuery /\ [][NextUpsert]_vars

----------------------------------------------------------------------------
(* Claims *)

\* C1: starting from the empty database, no collection ever holds two embeddings
\* with the same id
IdsUnique ==
    \A n \in DOMAIN collections :
        \A i, j \in 1..Len(collections[n].embeddings) :
            collections[n].embeddings[i].id = collections[n].embeddings[j].id => i = j

\* an insert has replaced an embedding in a collection that holds two
IdsUniqueWitness ==
    /\ result.op = "insert" /\ result.kind = "Ok" /\ result.dropped = 1
    /\ \E n \in DOMAIN collections : Len(collections[n].embeddings) = 2

\* C2: every stored embedding's vector has the length of its collection's dimension
DimensionInvariant ==
    \A n \in DOMAIN collections :
        \A i \in 1..Len(collections[n].embeddings) :
            Len(collections[n].embeddings[i].vector) = collections[n].dimension

\* a vector of the wrong length was refused while collections of two dimensions hold
\* embeddings
DimensionWitness ==
    /\ result.kind = "DimensionMismatch"
    /\ \E n, m \in DOMAIN collections :
        /\ collections[n].dimension = 2 /\ collections[m].dimension = 1
        /\ Len(collections[n].embeddings) = 1 /\ Len(collections[m].embeddings) = 1

\* C3: an insert of an id the collection already holds (vector of the collection's
\* dimension) leaves get_id answering the new embedding (vector normalized under
\* cosine, new metadata), the collection's length as it was, and one embedding of the id
UpsertLaw ==
    [][result'.op = "insert" => \A name \in Names, e \in EmbeddingInputs :
        (/\ name \in DOMAIN collections
         /\ HasId(collections[name], e.id)
         /\ Len(e.vector) = collections[name].dimension
         /\ InsertIntoCollection(name, e))
        => LET before == collections[name]
               after == collections'[name]
               vector == IF before.distance = "cosine" THEN normalize(e.vector) ELSE e.vector
           IN  /\ get_id(after, e.id) = [is_some |-> TRUE,
                                         value |-> Embedding(e.id, vector, e.metadata)]
               /\ Len(after.embeddings) = Len(before.embeddings)
               /\ Cardinality({i \in 1..Len(after.embeddings) :
                                  after.embeddings[i].id = e.id}) = 1]_vars

\* an upsert into a cosine collection has replaced a vector by a normalized one
UpsertWitness ==
    /\ result.op = "insert" /\ result.kind = "Ok" /\ result.dropped = 1
    /\ \E n \in DOMAIN collections :
        /\ collections[n].distance = "cosine"
        /\ Len(collections[n].embeddings) = 2
        /\ collections[n].embeddings[2].vector = <<6, 8>>
        /\ collections[n].embeddings[2].metadata.is_some

\* C6: when the process ends between two requests and starts again, the database
\* loaded from the store is the in-memory database as it was
PersistenceAcrossRestart ==
    [][result'.op = "start" => (result'.kind = "Loaded" /\ collections' = collections)]_vars

\* a restart has loaded two collections, one cosine, holding embeddings with metadata
PersistenceWitness ==
    /\ result.op = "start" /\ result.kind = "Loaded"
    /\ DOMAIN collections = Names
    /\ \E n \in Names :
        /\ collections[n].distance = "cosine"
        /\ Len(collections[n].embeddings) = 1
        /\ collections[n].embeddings[1].vector = <<6, 8>>
        /\ collections[n].embeddings[1].metadata.is_some
    /\ \E n \in Names :
        /\ collections[n].distance = "dot"
        /\ Len(collections[n].embeddings) = 1
        /\ ~collections[n].embeddings[1].metadata.is_some

\* C9: create_collection of an existing name answers UniqueViolation and changes
\* nothing; of an absent name it adds a collection of the given dimension and distance
\* with no embeddings, whatever embeddings the request body held
CreateContract ==
    [][result'.op = "create" => \A name \in Names, body \in CreateBodies :
        CreateCollection(name, body) =>
            IF name \in DOMAIN collections
            THEN /\ result'.kind = "UniqueViolation"
                 /\ result'.status = 409
                 /\ collections' = collections
            ELSE /\ result'.kind = "Ok"
                 /\ result'.status = 201
                 /\ DOMAIN collections' = DOMAIN collections \cup {name}
                 /\ collections'[name] = Collection(body.dimension, body.distance, << >>)
                 /\ \A n \in DOMAIN collections : collections'[n] = collections[n]]_vars

\* a create was refused while both collections hold an embedding
CreateWitness ==
    /\ result.op = "create" /\ result.kind = "UniqueViolation"
    /\ DOMAIN collections = Names
    /\ \A n \in Names : Len(collections[n].embeddings) = 1

\* C10: delete_collection of an absent name answers NotFound and changes nothing; of a
\* present name it removes the collection with its embeddings, get_collection is then
\* absent, and a create of the name then succeeds with no embeddings
DeleteContract ==
    [][result'.op = "delete" => \A name \in Names :
        DeleteCollection(name) =>
            IF name \notin DOMAIN collections
            THEN /\ result'.kind = "NotFound"
                 /\ result'.status = 404
                 /\ collections' = collections
            ELSE /\ result'.kind = "Ok"
                 /\ DOMAIN collections' = DOMAIN collections \ {name}
                 /\ \A n \in DOMAIN collections' : collections'[n] = collections[n]
                 /\ ~get_collection(collections', name).is_some
                 /\ \A body \in CreateBodies :
                        LET out == DbCreateCollection(collections', name,
                                                      body.dimension, body.distance)
                        IN  /\ out.result = "Ok"
                            /\ out.db[name].embeddings = << >>]_vars

\* a collection holding two embeddings has been deleted
DeleteWitness ==
    /\ result.op = "delete" /\ result.kind = "Ok" /\ result.dropped = 2
    /\ Cardinality(DOMAIN collections) = 1

\* the positions at which a mutating handler holds the write guard
InExclusiveSection(h) ==
    IsWrite(req[h]) /\ pc[h] \in {"call", "push", "save", "write", "respond"}

\* the positions at which a read handler holds the read guard
InSharedSection(h) ==
    ~IsWrite(req[h]) /\ pc[h] \in {"read", "read2", "respond"}

\* C4: a read handler reads the database as the last finished mutation left it, at
\* each of its reads; no reader is inside while an insert has removed the old
\* embedding and not yet pushed the new one; and a mutating handler leaves the
\* database, and gets the Result, that its Db method gives when applied to the
\* database as the handler before it (in write-lock order) left it
ReaderAtomicity ==
    /\ \A h \in Handlers :
        InSharedSection(h) =>
            /\ collections = committed
            /\ seen[h].n >= 1 => seen[h].first = get_collection(committed, req[h].name)
            /\ seen[h].n >= 2 => seen[h].second = get_collection(committed, req[h].name)
            /\ \A w \in Handlers : pc[w] # "push"
    /\ \A w \in Handlers :
        (IsWrite(req[w]) /\ pc[w] = "respond") =>
            /\ collections = ApplyDb(committed, req[w]).db
            /\ seen[w].kind = ApplyDb(committed, req[w]).result

\* a query waits for the lock while an insert has removed the old embedding of its id
\* from a collection of two and has not yet pushed the new one
ReaderAtomicityWitness ==
    \E w, h \in Handlers :
        /\ pc[w] = "push"
        /\ pc[h] = "lock" /\ req[h].op = "query"
        /\ Len(committed[req[w].name].embeddings) = 2
        /\ Len(collections[req[w].name].embeddings) = 1

\* C5: from its in-memory mutation until its snapshot write has finished a mutating
\* handler holds the lock exclusively, no other handler is inside the lock, at most
\* one snapshot write is in progress, and outside the exclusive sections the snapshot
\* on disk is the database in memory
ExclusiveSection ==
    /\ \A h \in Handlers :
        InExclusiveSection(h) =>
            /\ lock.writer = h
            /\ lock.readers = {}
            /\ \A g \in Handlers \ {h} : pc[g] \in {"idle", "lock"}
    /\ Cardinality({t \in DOMAIN file : file[t].open}) <= 1
    /\ \A t \in Handlers : file[t].open => (lock.writer = t /\ pc[t] = "write")
    /\ ((\A h \in Handlers : ~InExclusiveSection(h)) /\ phase \in {"running", "draining"})
        => LoadFromStore(store) = [ok |-> TRUE, db |-> collections]

\* an upserting insert is in the middle of its snapshot write while another mutating
\* handler waits for the lock
ExclusiveSectionWitness ==
    \E w, h \in Handlers :
        /\ pc[w] = "write" /\ req[w].op = "insert" /\ file[w].open
        /\ Len(collections[req[w].name].embeddings) = 2
        /\ pc[h] = "lock" /\ req[h].op = "delete"

\* C7: after a crash the store path holds the complete previous snapshot or the
\* complete new one, so the next start loads one of those two databases
SnapshotAtomic ==
    phase = "crashed" =>
        LET loaded == LoadFromStore(store)
        IN  /\ loaded.ok
            /\ loaded.db = committed \/ loaded.db = collections

\* C8: the Db is dropped (its last snapshot written) only when no handler is in
\* flight, the database does not change from then on, and at exit the snapshot on
\* disk is the database in memory
OrderlyShutdown ==
    [][/\ phase' \in {"dropping", "exited"} => \A h \in Handlers : pc'[h] = "idle"
       /\ phase \in {"dropping", "exited"} => collections' = collections
       /\ phase' = "exited" => LoadFromStore(store') = [ok |-> TRUE, db |-> collections']]_vars

\* the process has exited after a signal that came with every handler in flight, and
\* the database holds two embeddings
OrderlyShutdownWitness ==
    /\ phase = "exited"
    /\ inflight = NumHandlers
    /\ \E n \in DOMAIN collections : Len(collections[n].embeddings) = 2

\* C11: an insert into an absent collection answers NotFound, an insert of a vector
\* whose length is not the collection's dimension answers DimensionMismatch, and both
\* leave the in-memory database (and the snapshot) as it was: an embedding of the
\* same id stays in place unaltered
InsertFailureFrame ==
    [][result'.op = "insert" => \A name \in Names, e \in EmbeddingInputs :
        InsertIntoCollection(name, e) =>
            /\ name \notin DOMAIN collections =>
                    /\ result'.kind = "NotFound"
                    /\ result'.status = 404
                    /\ collections' = collections
                    /\ store' = store
            /\ (name \in DOMAIN collections /\ Len(e.vector) # collections[name].dimension) =>
                    /\ result'.kind = "DimensionMismatch"
                    /\ result'.status = 400
                    /\ collections' = collections
                    /\ store' = store
                    /\ get_id(collections'[name], e.id) = get_id(collections[name], e.id)]_vars

\* an insert was refused for its dimension by a collection that holds an embedding of
\* every id of the requests, so of the refused one
InsertFailureWitness ==
    /\ result.op = "insert" /\ result.kind = "DimensionMismatch"
    /\ \E n \in DOMAIN collections : \A id \in Ids : HasId(collections[n], id)

\* C12: a deletion of an embedding answers NotFound when the collection is absent and
\* IDNotFound when the collection holds no embedding of the id, and leaves the
\* in-memory database as it was; otherwise it removes the embedding of that id and
\* no other, returns the removed embedding, and keeps the others in their order
DeleteEmbeddingContract ==
    [][result'.op = "delete_id" => \A name \in Names, id \in StoredIds :
        DeleteIdCollection(name, id) =>
            IF name \notin DOMAIN collections
            THEN /\ result'.kind = "NotFound"
                 /\ result'.status = 404
                 /\ collections' = collections
            ELSE LET before == collections[name].embeddings
                     after == collections'[name].embeddings
                     held == {i \in 1..Len(before) : before[i].id = id}
                 IN  IF held = {}
                     THEN /\ result'.kind = "IDNotFound"
                          /\ result'.status = 404
                          /\ collections' = collections
                     ELSE /\ result'.kind = "Ok"
                          /\ result'.status = 204
                          /\ \E p \in held :
                               /\ DbCollectionDeleteId(collections, name, id).value = before[p]
                               /\ Len(after) = Len(before) - 1
                               /\ \A i \in 1..Len(after) :
                                    after[i] = IF i < p THEN before[i] ELSE before[i + 1]
                          /\ \A i \in 1..Len(after) : after[i].id # id
                          /\ collections' = [collections EXCEPT ![name].embeddings = after]]_vars

\* a deletion has removed one embedding of three
DeleteEmbeddingWitness ==
    /\ result.op = "delete_id" /\ result.kind = "Ok" /\ result.dropped = 1
    /\ \E n \in DOMAIN collections : Len(collections[n].embeddings) = 2

\* the collection a similarity request was answered from (read handlers leave the
\* database as it is), the k that reached get_similarity, and the positions returned
Queried == collections[result.request.name]
EffectiveK == IF result.request.k.is_some THEN result.request.k.value ELSE 1
Returned == {result.ranked[i].index + 1 : i \in 1..Len(result.ranked)}

\* C13: for k >= 1 a similarity query returns min(k, |C|) results that refer to
\* distinct positions of the collection, each with its embedding and its score, in
\* non-decreasing score order, and no embedding left out has a score strictly
\* smaller than a returned one; with k = |C| every embedding is returned once
TopKShape ==
    (result.op = "query" /\ result.kind = "Ok" /\ EffectiveK >= 1) =>
        LET c == Queried
            n == Len(c.embeddings)
            scores == Scores(c, result.request.query)
            results == result.results
        IN  /\ Len(results) = IF EffectiveK < n THEN EffectiveK ELSE n
            /\ Len(result.ranked) = Len(results)
            /\ Cardinality(Returned) = Len(results)
            /\ Returned \subseteq 1..n
            /\ \A i \in 1..Len(results) :
                 /\ results[i].embedding = c.embeddings[result.ranked[i].index + 1]
                 /\ results[i].score = scores[result.ranked[i].index + 1].score
            /\ \A i \in 1..(Len(results) - 1) : results[i].score <= results[i + 1].score
            /\ \A j \in (1..n) \ Returned :
                 \A i \in 1..Len(results) : scores[j].score >= results[i].score
            /\ EffectiveK = n => Returned = 1..n

\* a query with k = 2 on three embeddings has left out the first of the collection
\* and returned the other two
TopKShapeWitness ==
    /\ result.op = "query" /\ result.kind = "Ok" /\ EffectiveK = 2
    /\ Len(Queried.embeddings) = 3
    /\ Returned = {2, 3}

\* C14: whatever k is requested, 0 and more than the collection holds included, a
\* similarity query (of the collection's dimension, on a present collection)
\* completes and returns min(max(k, 1), |C|) results in ascending score order
KClamped ==
    (result.op = "query" /\ result.kind \notin {"NotFound", "DimensionMismatch"}) =>
        LET n == Len(Queried.embeddings)
            k == IF EffectiveK < 1 THEN 1 ELSE EffectiveK
        IN  /\ result.kind = "Ok"
            /\ result.status = 200
            /\ Len(result.results) = IF k < n THEN k ELSE n
            /\ \A i \in 1..(Len(result.results) - 1) :
                 result.results[i].score <= result.results[i + 1].score

\* the stored collection of the example: euclidean, x = [1,0,0], y = [0,1,0],
\* z = [0,0,1] inserted in that order
ExampleStored ==
    /\ Queried.distance = "euclidean"
    /\ Len(Queried.embeddings) = 3
    /\ [i \in 1..3 |-> Queried.embeddings[i].id] = <<"x", "y", "z">>
    /\ [i \in 1..3 |-> Queried.embeddings[i].vector] = <<<<10, 0, 0>>, <<0, 10, 0>>, <<0, 0, 10>>>>

\* C15: embeddings of equal score are returned in ascending position, and when only
\* some of them fit in the top k those of the smallest positions are kept: the i-th
\* result is the embedding that exactly i - 1 embeddings precede in the order by
\* score, then position; so the example (query [1,0,0], k = 2) gives x, then y
TieBreak ==
    (result.op = "query" /\ result.kind = "Ok") =>
        LET c == Queried
            n == Len(c.embeddings)
            score == [j \in 1..n |-> Scores(c, result.request.query)[j].score]
            ranked == result.ranked
        IN  /\ \A i, j \in 1..Len(ranked) :
                 (i < j /\ ranked[i].score = ranked[j].score) => ranked[i].index < ranked[j].index
            /\ \A j \in (1..n) \ Returned : \A i \in Returned : score[j] = score[i] => i < j
            /\ \A i \in 1..Len(ranked) :
                 LET p == ranked[i].index + 1
                 IN  /\ p \in 1..n
                     /\ result.results[i].embedding = c.embeddings[p]
                     /\ Cardinality({j \in 1..n : \/ score[j] < score[p]
                                                  \/ score[j] = score[p] /\ j < p}) = i - 1
            /\ (ExampleStored /\ result.request.query = <<10, 0, 0>> /\ EffectiveK = 2) =>
                 /\ [i \in 1..2 |-> result.results[i].embedding.id] = <<"x", "y">>
                 /\ [i \in 1..2 |-> result.results[i].score] = <<0, 2 * One * One>>

\* the example was queried: y and z tie at score 2 and y, of the smaller position,
\* was returned
TieBreakWitness ==
    /\ result.op = "query" /\ result.kind = "Ok" /\ EffectiveK = 2
    /\ ExampleStored
    /\ result.request.query = <<10, 0, 0>>
    /\ Len(result.results) = 2
    /\ result.results[2].embedding.id = "y"

\* the i-th smallest element of a set of positions
Nth(positions, i) == CHOOSE j \in positions : Cardinality({m \in positions : m < j}) = i - 1

\* the embeddings at the first min(k, |positions|) of the positions, in ascending order
FirstAt(embeddings, positions, k) ==
    LET n == IF k < Cardinality(positions) THEN k ELSE Cardinality(positions)
    IN  [i \in 1..n |-> embeddings[Nth(positions, i)]]

\* C16: a metadata filter returns the first min(k, m) of the m matching embeddings,
\* in the collection's order (k defaulting to 5). An embedding matches the string
\* filter iff it has metadata that holds the key with exactly the value; it matches
\* the numeric filter iff it has metadata that holds the key with a value that
\* parses as a number for which the comparison with the threshold holds
MetadataFilters ==
    /\ (result.op = "query_string" /\ result.kind = "Ok") =>
        LET es == Queried.embeddings
            r == result.request
            matching == {j \in 1..Len(es) :
                            /\ es[j].metadata.is_some
                            /\ r.key \in DOMAIN es[j].metadata.map
                            /\ es[j].metadata.map[r.key] = r.value}
        IN  result.results = FirstAt(es, matching, UnwrapOr(r.k, 5))
    /\ (result.op = "query_number" /\ result.kind = "Ok") =>
        LET es == Queried.embeddings
            r == result.request
            number(j) == ParseF32(es[j].metadata.map[r.key])
            matching == {j \in 1..Len(es) :
                            /\ es[j].metadata.is_some
                            /\ r.key \in DOMAIN es[j].metadata.map
                            /\ number(j).ok
                            /\ \/ r.equality = "greater_than" /\ number(j).value > r.value
                               \/ r.equality = "greater_equal_than" /\ number(j).value >= r.value
                               \/ r.equality = "lesser_than" /\ number(j).value < r.value
                               \/ r.equality = "lesser_equal_than" /\ number(j).value <= r.value
                               \/ r.equality = "equal" /\ number(j).value = r.value}
        IN  result.results = FirstAt(es, matching, UnwrapOr(r.k, 5))

\* a string filter with k = 1 has returned the first of two matches, the collection
\* holding a third embedding that does not match before the second match
MetadataFiltersWitness ==
    /\ result.op = "query_string" /\ result.kind = "Ok"
    /\ result.request.k = SomeK(1)
    /\ Len(result.results) = 1
    /\ LET es == Queried.embeddings
       IN  /\ Len(es) = 3
           /\ result.results[1] = es[1]
           /\ ~StringFilter(es[2], result.request.key, result.request.value)
           /\ StringFilter(es[3], result.request.key, result.request.value)

\* the request succeeds as a Db operation on the database db
Succeeds(db, r) ==
    CASE r.op = "create" -> r.name \notin DOMAIN db
      [] r.op = "delete" -> r.name \in DOMAIN db
      [] r.op = "insert" ->
           r.name \in DOMAIN db /\ Len(r.embedding.vector) = db[r.name].dimension
      [] r.op = "delete_id" -> r.name \in DOMAIN db /\ HasId(db[r.name], r.id)

\* the database shows the effect of the request
Reflects(db, r) ==
    CASE r.op = "create" ->
           r.name \in DOMAIN db /\ db[r.name] = Collection(r.body.dimension, r.body.distance, << >>)
      [] r.op = "delete" -> r.name \notin DOMAIN db
      [] r.op = "insert" ->
           /\ r.name \in DOMAIN db
           /\ get_id(db[r.name], r.embedding.id).is_some
           /\ get_id(db[r.name], r.embedding.id).value.metadata = r.embedding.metadata
           /\ db[r.name].embeddings[Len(db[r.name].embeddings)].id = r.embedding.id
      [] r.op = "delete_id" -> r.name \in DOMAIN db /\ ~HasId(db[r.name], r.id)

\* C17: an otherwise successful create, delete, insert or deletion of an embedding
\* whose snapshot write fails still answers success, and the in-memory database is
\* the one the mutation gives, which the next request starts from; every such
\* mutation attempts the write, also after a failed one, and a write that succeeds
\* leaves the full snapshot of the current database
SaveFailureSwallowed ==
    [][\A r \in ConcRequests :
        (IsWrite(r) /\ result'.request = r /\ Succeeds(collections, r)) =>
            /\ result'.saved \in {"Ok", "Err"}
            /\ result'.kind = "Ok"
            /\ result'.status \in {201, 204}
            /\ collections' = ApplyDb(collections, r).db
            /\ Reflects(collections', r)
            /\ result'.saved = "Ok" =>
                 LoadFromStore(store') = [ok |-> TRUE, db |-> collections']]_vars

\* an insert was answered 201 and is in memory while its snapshot write failed, the
\* file being left from another failed write; the file does not hold the database
SaveFailureWitness ==
    /\ result.op = "insert" /\ result.kind = "Ok" /\ result.status = 201
    /\ result.saved = "Err" /\ result.stale
    /\ Reflects(collections, result.request)
    /\ LoadFromStore(store) # [ok |-> TRUE, db |-> collections]

\* C18: a similarity query on an absent collection is answered 404, and one whose
\* vector's length is not the collection's dimension is answered 400 with no
\* embedding scored and no result; a similarity query leaves the database and the
\* snapshot as they were
QueryDimensionEnforced ==
    [][result'.op = "query" =>
        LET r == result'.request
        IN  /\ collections' = collections
            /\ store' = store
            /\ r.name \notin DOMAIN collections =>
                 /\ result'.kind = "NotFound"
                 /\ result'.status = 404
                 /\ result'.results = << >>
                 /\ result'.scored = 0
            /\ (r.name \in DOMAIN collections
                /\ Len(r.query) # collections[r.name].dimension) =>
                 /\ result'.kind = "DimensionMismatch"
                 /\ result'.status = 400
                 /\ result'.results = << >>
                 /\ result'.scored = 0]_vars

\* a query of length 2 was refused by a collection of dimension 3 that holds three
\* embeddings
QueryDimensionWitness ==
    /\ result.op = "query" /\ result.status = 400
    /\ Len(result.request.query) = 2
    /\ Queried.dimension = 3
    /\ Len(Queried.embeddings) = 3

\* C19: every collection of the database has a dimension of at least 1
PositiveDimension ==
    \A n \in DOMAIN collections : collections[n].dimension >= 1

\* the vector has L2 norm 1.0, up to the rounding of the fixed-point division
UnitNorm(v) == ISqrt(SumSquares(v)) \in {One - 1, One}

IsZero(v) == \A i \in 1..Len(v) : v[i] = 0

\* v has the direction of w: the components are in proportion and of the same sign
SameDirection(v, w) ==
    /\ Len(v) = Len(w)
    /\ \A i, j \in 1..Len(v) : v[i] * w[j] = v[j] * w[i]
    /\ \A i \in 1..Len(v) : v[i] * w[i] >= 0

CancellationAtomic ==
    [][/\ \A h \in Handlers :
            (IsWrite(req[h]) /\ pc[h] # "idle" /\ pc'[h] = "idle") =>
                \/ /\ pc[h] = "lock"
                   /\ lock.writer # h
                   /\ collections' = collections
                   /\ store' = store
                \/ /\ pc[h] = "respond"
                   /\ lock.writer = h
                   /\ collections' = collections
                   /\ LoadFromStore(store') = [ok |-> TRUE, db |-> collections']
       /\ (lock'.writer = 0 /\ phase' \in {"running", "draining"}) =>
            LoadFromStore(store') = [ok |-> TRUE, db |-> collections']]_vars

\* a handler task was dropped while it waited for the lock that an insert holds in
\* the middle of its snapshot write
CancellationWitness ==
    /\ result.op = "cancel"
    /\ \E w, h \in Handlers :
        /\ pc[w] = "write" /\ req[w].op = "insert" /\ file[w].open
        /\ pc[h] = "idle"
        /\ Len(collections[req[w].name].embeddings) = 2

\* an operation on the embeddings of collection name has kept the set of names, every
\* collection's dimension and distance, and every other collection as it was
Frame(name) ==
    /\ DOMAIN collections' = DOMAIN collections
    /\ \A n \in DOMAIN collections :
         /\ collections'[n].dimension = collections[n].dimension
         /\ collections'[n].distance = collections[n].distance
         /\ n # name => collections'[n] = collections[n]

\* C22: an insert and a deletion of an embedding keep the set of collection names
\* (an insert into an absent collection does not create it), the dimension and the
\* distance of the collection, and every other collection; a read handler
\* (collection info, get by id, both metadata filters, similarity) changes nothing
EmbeddingFrame ==
    [][/\ result'.op = "insert" => \A name \in Names, e \in EmbeddingInputs :
            InsertIntoCollection(name, e) =>
                /\ Frame(name)
                /\ name \notin DOMAIN collections => collections' = collections
       /\ result'.op = "delete_id" => \A name \in Names, id \in Ids :
            DeleteIdCollection(name, id) => Frame(name)
       /\ result'.op \in ReadOps => (collections' = collections /\ store' = store)]_vars

\* an insert has succeeded in one of two collections that each hold an embedding
EmbeddingFrameWitness ==
    /\ result.op = "insert" /\ result.kind = "Ok"
    /\ DOMAIN collections = Names
    /\ \A n \in Names : Len(collections[n].embeddings) = 1

\* C23: a mutating request writes the snapshot exactly when its Db operation
\* succeeds: a create, delete, insert or delete of an embedding that answers Ok has
\* run one save, and one that answers UniqueViolation, NotFound, DimensionMismatch
\* or IDNotFound has run none
SnapshotWriteIffSuccess ==
    result.op \in {"create", "delete", "insert", "delete_id"} =>
        ((result.saved # "None") <=> (result.kind = "Ok"))

Without(c, id) == SelectSeq(c.embeddings, LAMBDA f : f.id # id)

\* the embedding of id is the last of the results r it is part of, and is part of
\* them only when every one of the matches is
LastOfMatches(r, matches, id) ==
    \A i \in 1..Len(r) : r[i].id = id => (i = Len(r) /\ Len(r) = Len(matches))

\* in the similarity results of c, every other embedding that scores as the
\* embedding of id does is ranked before it
LastOfTies(c, query, k, id) ==
    LET r == get_similarity(c, query, k).results
        scores == Scores(c, query)
    IN  \A i \in 1..Len(r) : r[i].embedding.id = id =>
            \A m \in 1..Len(c.embeddings) :
                (c.embeddings[m].id # id /\ scores[m].score = r[i].score) =>
                    \E j \in 1..(i - 1) : r[j].embedding.id = c.embeddings[m].id

\* C24: a successful insert leaves its embedding in the last position, whether the id
\* was present or not, and the other embeddings in the order they had (a deletion
\* too keeps the order of the others), so that the order is that of each id's
\* latest insert; a metadata filter then returns the upserted embedding after every
\* other match and only when k leaves room for all of them, and a similarity query
\* ranks it after every other embedding of the same score
UpsertMovesLast ==
    [][/\ (result'.op = "insert" /\ result'.kind = "Ok") => \A e \in UpsertInputs :
            InsertIntoCollection("A", e) =>
                LET old == collections["A"]
                    new == collections'["A"]
                    n == Len(new.embeddings)
                IN  /\ n = Len(Without(old, e.id)) + 1
                    /\ new.embeddings[n] = Stored(old, e)
                    /\ SubSeq(new.embeddings, 1, n - 1) = Without(old, e.id)
                    /\ \A k \in 0..n :
                         /\ \A key \in {"price", "tag"}, value \in {"10", "20"} :
                              LastOfMatches(get_metadata_string(new, key, value, k),
                                            get_metadata_string(new, key, value, n), e.id)
                         /\ LastOfMatches(
                              get_metadata_number(new, "price", 10 * One, "greater_equal_than", k),
                              get_metadata_number(new, "price", 10 * One, "greater_equal_than", n),
                              e.id)
                    /\ \A k \in 1..n, query \in {<<10, 0, 0>>, <<0, 10, 0>>, <<0, 0, 0>>} :
                         LastOfTies(new, query, k, e.id)
       /\ result'.op = "delete_id" => \A id \in StoredIds :
            DeleteIdCollection("A", id) =>
                collections'["A"].embeddings = Without(collections["A"], id)]_vars

\* an embedding that was present has been inserted again into a collection of three;
\* it is now the last, and the first has its vector and its metadata
UpsertMovesLastWitness ==
    /\ result.op = "insert" /\ result.kind = "Ok" /\ result.dropped = 1
    /\ "A" \in DOMAIN collections
    /\ LET s == collections["A"].embeddings
       IN  /\ Len(s) = 3
           /\ s[3].vector = s[1].vector /\ s[3].metadata = s[1].metadata
           /\ s[3].metadata = Meta("price", "10")

====
